---- MODULE Spec2Model ----
(***************************************************************************)
(* Model of postomat_client (src/src/postomat_client/__init__.py): the     *)
(* CamelCaseConverter (humps key renaming composed with cattrs             *)
(* structuring), the two HTTP calls to the locker service, the folder scan *)
(* and the e-mail notification.                                            *)
(*                                                                         *)
(* Strings are sequences of one-character strings, so that the case        *)
(* conversions, int(), str() and datetime.fromisoformat() are computed     *)
(* character by character.  JSON-like values and Python objects are tagged *)
(* tuples:                                                                 *)
(*   <<"null">>  <<"int", n>>  <<"str", chars>>  <<"list", items>>         *)
(*   <<"map", pairs>>   (pairs: a sequence of <<key chars, value>>, in the *)
(*                       insertion order of a Python dict)                 *)
(*   <<"datetime", y, mo, d, h, mi, s, us, tz>>  <<"Cell", f1, ..., f9>>   *)
(***************************************************************************)
EXTENDS Integers, Sequences, FiniteSets, TLC

VARIABLES
    \* key renaming: the key, and what depascalize and camelize make of it
    kpc, key, snake, camel,
    \* one load followed by one dump: the arguments, the value handed to
    \* converter.structure, and the two results
    lpc, params, data_cls, camel_to_snake, renamed, loaded, snake_to_camel, dumped,
    \* the client: the structure hooks registered on the shared converter, and
    \* the calls in progress, one per task of the event loop
    hooks, tasks,
    \* send_email: the arguments, the message, the connection, the calls made
    \* on the mail server in order, and the exception on its way to the caller
    mpc, margs, message, conn, events, pending,
    \* scan_folder: the directory tree, the stack of Path.walk, and the list
    spc, tree, paths, files

keyVars == <<kpc, key, snake, camel>>
loadVars == <<lpc, params, data_cls, camel_to_snake, renamed, loaded, snake_to_camel, dumped>>
clientVars == <<hooks, tasks>>
mailVars == <<mpc, margs, message, conn, events, pending>>
scanVars == <<spc, tree, paths, files>>
vars == <<keyVars, loadVars, clientVars, mailVars, scanVars>>

(***************************************************************************)
(* Bounds of the model.                                                    *)
(***************************************************************************)
MaxKeyLen == 4

(***************************************************************************)
(* Characters and the str methods the conversions use.                     *)
(***************************************************************************)
Lowers == <<"a","b","c","d","e","f","g","h","i","j","k","l","m",
            "n","o","p","q","r","s","t","u","v","w","x","y","z">>
Uppers == <<"A","B","C","D","E","F","G","H","I","J","K","L","M",
            "N","O","P","Q","R","S","T","U","V","W","X","Y","Z">>
Digits == <<"0","1","2","3","4","5","6","7","8","9">>

LowerSet == {Lowers[i] : i \in DOMAIN Lowers}
UpperSet == {Uppers[i] : i \in DOMAIN Uppers}
DigitSet == {Digits[i] : i \in DOMAIN Digits}
LowerOf == [c \in UpperSet |-> Lowers[CHOOSE i \in DOMAIN Uppers : Uppers[i] = c]]
UpperOf == [c \in LowerSet |-> Uppers[CHOOSE i \in DOMAIN Lowers : Lowers[i] = c]]
DigitValOf == [c \in DigitSet |-> (CHOOSE i \in DOMAIN Digits : Digits[i] = c) - 1]

IsLowerCh(c) == c \in LowerSet
IsUpperCh(c) == c \in UpperSet
IsDigitCh(c) == c \in DigitSet
IsCasedCh(c) == IsLowerCh(c) \/ IsUpperCh(c)
\* the hyphen and the underscore: the class [\-_] of the humps patterns
IsSepCh(c) == c \in {"-", "_"}
\* the class [A-Z\d] of ACRONYM_RE
IsAcrCh(c) == IsUpperCh(c) \/ IsDigitCh(c)

ToLowerCh(c) == IF IsUpperCh(c) THEN LowerOf[c] ELSE c
ToUpperCh(c) == IF IsLowerCh(c) THEN UpperOf[c] ELSE c

\* str.isupper(): at least one cased character, and no lowercase one
str_isupper(s) ==
    /\ \E i \in DOMAIN s : IsUpperCh(s[i])
    /\ \A i \in DOMAIN s : ~IsLowerCh(s[i])
\* str.isnumeric(): non-empty, every character numeric
str_isnumeric(s) == Len(s) > 0 /\ \A i \in DOMAIN s : IsDigitCh(s[i])
str_lower(s) == [i \in DOMAIN s |-> ToLowerCh(s[i])]
Prefix(s, n) == SubSeq(s, 1, IF Len(s) < n THEN Len(s) ELSE n)

\* first index >= i of s that is past the end or holds no separator
RECURSIVE RunEnd(_, _)
RunEnd(s, i) == IF i > Len(s) \/ ~IsSepCh(s[i]) THEN i ELSE RunEnd(s, i + 1)

\* humps.  ACRONYM_RE = ([A-Z\d]+)(?=[A-Z\d]|$) : a maximal run of capitals
\* and digits matches whole when it ends the string, and without its last
\* character otherwise; each match is replaced by its str.title().
InAcronymMatch(s, i) ==
    IsAcrCh(s[i]) /\ (i = Len(s) \/ IsAcrCh(s[i + 1]))

_fix_abbreviations(s) ==
    [i \in DOMAIN s |->
        IF InAcronymMatch(s, i) /\ i > 1 /\ IsUpperCh(s[i - 1])
        THEN ToLowerCh(s[i]) ELSE s[i]]

\* SPLIT_RE = ([\-_]*(?<=[^0-9])(?=[A-Z])[^A-Z]*[\-_]*) : a match is the
\* (possibly empty) run of separators right before a capital that is not
\* at the start and not after a digit.  re.split returns the text between
\* the matches and, the pattern being one group, the matches themselves.
\* SplitPieces is that list: cur is the text since the last match.
RECURSIVE SplitPieces(_, _, _, _)
SplitPieces(s, i, cur, out) ==
    IF i > Len(s) THEN Append(out, cur)
    ELSE IF IsSepCh(s[i]) /\ RunEnd(s, i) <= Len(s) /\ IsUpperCh(s[RunEnd(s, i)])
    THEN LET p == RunEnd(s, i)
         IN  SplitPieces(s, p + 1, <<s[p]>>, out \o <<cur, SubSeq(s, i, p - 1)>>)
    ELSE IF IsUpperCh(s[i]) /\ i > 1 /\ ~IsDigitCh(s[i - 1])
    THEN SplitPieces(s, i + 1, <<s[i]>>, out \o <<cur, <<>> >>)
    ELSE SplitPieces(s, i + 1, Append(cur, s[i]), out)

\* separator.join(s for s in pieces if s)
RECURSIVE JoinNonEmpty(_, _, _)
JoinNonEmpty(pieces, sep, started) ==
    IF pieces = <<>> THEN <<>>
    ELSE IF Head(pieces) = <<>> THEN JoinNonEmpty(Tail(pieces), sep, started)
    ELSE (IF started THEN sep ELSE <<>>) \o Head(pieces)
         \o JoinNonEmpty(Tail(pieces), sep, TRUE)

_separate_words(s) == JoinNonEmpty(SplitPieces(s, 1, <<>>, <<>>), <<"_">>, FALSE)

\* humps.decamelize on a string
decamelize_str(s) ==
    IF str_isupper(s) \/ str_isnumeric(s) THEN s
    ELSE str_lower(_separate_words(_fix_abbreviations(s)))

\* UNDERSCORE_RE = (?<=[^\-_])[\-_]+[^\-_] : a run of separators after a
\* non-separator and before one; the match is replaced by that following
\* character in upper case.
\* the substitution with the callback's upper() forgotten
RECURSIVE UnderscoreSub_noupper(_, _)
UnderscoreSub_noupper(s, i) ==
    IF i > Len(s) THEN <<>>
    ELSE IF IsSepCh(s[i]) /\ i > 1 /\ ~IsSepCh(s[i - 1]) /\ RunEnd(s, i) <= Len(s)
    THEN <<s[RunEnd(s, i)]>> \o UnderscoreSub_noupper(s, RunEnd(s, i) + 1)
    ELSE <<s[i]>> \o UnderscoreSub_noupper(s, i + 1)

RECURSIVE UnderscoreSub(_, _)
UnderscoreSub(s, i) ==
    IF i > Len(s) THEN <<>>
    ELSE IF IsSepCh(s[i]) /\ i > 1 /\ ~IsSepCh(s[i - 1]) /\ RunEnd(s, i) <= Len(s)
    THEN <<ToUpperCh(s[RunEnd(s, i)])>> \o UnderscoreSub(s, RunEnd(s, i) + 1)
    ELSE <<s[i]>> \o UnderscoreSub(s, i + 1)

\* humps.camelize on a string
camelize_str(s) ==
    IF str_isupper(s) \/ str_isnumeric(s) THEN s
    ELSE LET t == IF Len(s) # 0 /\ ~str_isupper(Prefix(s, 2))
                  THEN <<ToLowerCh(s[1])>> \o Tail(s) ELSE s
         IN  UnderscoreSub(t, 1)

(***************************************************************************)
(* JSON-like values and Python objects.                                    *)
(***************************************************************************)
Null == <<"null">>
IntV(n) == <<"int", n>>
Str(s) == <<"str", s>>
List(items) == <<"list", items>>
Map(pairs) == <<"map", pairs>>
Tag(v) == v[1]

Ok(v) == <<"ok", v>>
Raise(kind) == <<"raise", kind>>
IsOk(r) == r[1] = "ok"

Keys(pairs) == {pairs[i][1] : i \in DOMAIN pairs}
HasKey(pairs, k) == k \in Keys(pairs)
Lookup(pairs, k) == pairs[CHOOSE i \in DOMAIN pairs : pairs[i][1] = k][2]
\* d[k] = v on a dict: a key already there keeps its place and takes the value
DictSet(pairs, k, v) ==
    IF HasKey(pairs, k)
    THEN [i \in DOMAIN pairs |-> IF pairs[i][1] = k THEN <<k, v>> ELSE pairs[i]]
    ELSE Append(pairs, <<k, v>>)
DictDel(pairs, k) == SelectSeq(pairs, LAMBDA p : p[1] # k)

\* the conversion humps applies to a string: fn names the humps function
KeyFn(fn, s) == IF fn = "decamelize" THEN decamelize_str(s) ELSE camelize_str(s)

\* humps._process_keys: lists are rebuilt element by element, mappings by the
\* comprehension {fn(k): _process_keys(v, fn)}, anything else is returned as is
RECURSIVE _process_keys(_, _)
RECURSIVE ProcessPairs(_, _, _)
ProcessPairs(pairs, fn, acc) ==
    IF pairs = <<>> THEN acc
    ELSE ProcessPairs(Tail(pairs), fn,
            DictSet(acc, KeyFn(fn, Head(pairs)[1]), _process_keys(Head(pairs)[2], fn)))
_process_keys(x, fn) ==
    IF Tag(x) = "list" THEN List([i \in DOMAIN x[2] |-> _process_keys(x[2][i], fn)])
    ELSE IF Tag(x) = "map" THEN Map(ProcessPairs(x[2], fn, <<>>))
    ELSE x

\* humps.decamelize / humps.camelize on any value: a list or a mapping goes to
\* _process_keys; anything else is taken for a string (None for the empty one),
\* and s.isupper() on a non-string raises AttributeError
HumpsApply(x, fn) ==
    IF Tag(x) \in {"list", "map"} THEN Ok(_process_keys(x, fn))
    ELSE IF Tag(x) = "null" THEN Ok(Str(KeyFn(fn, <<>>)))
    ELSE IF Tag(x) = "str" THEN Ok(Str(KeyFn(fn, x[2])))
    ELSE Raise("AttributeError")

\* humps.depascalize is humps.decamelize
depascalize(x) == HumpsApply(x, "decamelize")
camelize(x) == HumpsApply(x, "camelize")

(***************************************************************************)
(* int(), str() and repr() of the builtins, on the values above.           *)
(***************************************************************************)
DigitVal(c) == DigitValOf[c]

RECURSIVE DigitsVal(_)
DigitsVal(s) ==
    IF s = <<>> THEN 0 ELSE 10 * DigitsVal(SubSeq(s, 1, Len(s) - 1)) + DigitVal(s[Len(s)])

AllDigits(s) == Len(s) > 0 /\ \A i \in DOMAIN s : IsDigitCh(s[i])

RECURSIVE NatStr(_)
NatStr(n) == IF n < 10 THEN <<Digits[n + 1]>> ELSE NatStr(n \div 10) \o <<Digits[(n % 10) + 1]>>
IntStr(n) == IF n < 0 THEN <<"-">> \o NatStr(-n) ELSE NatStr(n)

\* int(x): an int is returned, a string of an optional sign and decimal digits
\* is parsed, a string of anything else raises ValueError, None and containers
\* raise TypeError
py_int(x) ==
    IF Tag(x) = "int" THEN Ok(x)
    ELSE IF Tag(x) = "str"
    THEN LET s == x[2]
             signed == Len(s) > 0 /\ s[1] \in {"+", "-"}
             body == IF signed THEN Tail(s) ELSE s
         IN  IF AllDigits(body)
             THEN Ok(IntV(IF signed /\ s[1] = "-" THEN -DigitsVal(body) ELSE DigitsVal(body)))
             ELSE Raise("ValueError")
    ELSE Raise("TypeError")

RECURSIVE py_repr(_)
RECURSIVE JoinRepr(_, _)
\* ", ".join of the elements' texts; an element is <<>> (a list item) or a key
JoinRepr(items, isMap) ==
    IF items = <<>> THEN <<>>
    ELSE (IF isMap
          THEN py_repr(Str(Head(items)[1])) \o <<":", " ">> \o py_repr(Head(items)[2])
          ELSE py_repr(Head(items)))
         \o (IF Len(items) > 1 THEN <<",", " ">> ELSE <<>>)
         \o JoinRepr(Tail(items), isMap)
py_repr(x) ==
    IF Tag(x) = "null" THEN <<"N","o","n","e">>
    ELSE IF Tag(x) = "int" THEN IntStr(x[2])
    ELSE IF Tag(x) = "str" THEN <<"'">> \o x[2] \o <<"'">>
    ELSE IF Tag(x) = "list" THEN <<"[">> \o JoinRepr(x[2], FALSE) \o <<"]">>
    ELSE <<"{">> \o JoinRepr(x[2], TRUE) \o <<"}">>

\* str(x): a string is itself, anything else its repr
py_str(x) == IF Tag(x) = "str" THEN x ELSE Str(py_repr(x))

(***************************************************************************)
(* datetime.fromisoformat, for the extended ISO-8601 forms                 *)
(*   YYYY-MM-DD [ <any one character> HH:MM:SS [ .ffffff ] [ Z | +HH:MM ] ]*)
(* Every other text raises ValueError here; the inputs of the model are    *)
(* texts of these forms and texts that are no ISO-8601 form at all.        *)
(***************************************************************************)
Datetime(y, mo, d, h, mi, s, us, tz) == <<"datetime", y, mo, d, h, mi, s, us, tz>>

IsLeap(y) == (y % 4 = 0 /\ y % 100 # 0) \/ y % 400 = 0
DaysInMonth(y, mo) ==
    IF mo = 2 THEN (IF IsLeap(y) THEN 29 ELSE 28)
    ELSE IF mo \in {4, 6, 9, 11} THEN 30 ELSE 31

DigitsAt(s, a, b) == b <= Len(s) /\ \A i \in a..b : IsDigitCh(s[i])
NumAt(s, a, b) == DigitsVal(SubSeq(s, a, b))

\* the fraction's digits, read as microseconds: the first six, right-padded
RECURSIVE Pow10(_)
Pow10(n) == IF n = 0 THEN 1 ELSE 10 * Pow10(n - 1)
Micros(f) == IF Len(f) >= 6 THEN DigitsVal(SubSeq(f, 1, 6))
             ELSE DigitsVal(f) * Pow10(6 - Len(f))

\* the text after HH:MM:SS: <<ok, microseconds, tz>>
ParseTail(r) ==
    LET hasFrac == Len(r) > 0 /\ r[1] \in {".", ","}
        fracEnd == IF hasFrac
                   THEN CHOOSE j \in 1..Len(r) :
                            /\ \A i \in 2..j : IsDigitCh(r[i])
                            /\ (j = Len(r) \/ ~IsDigitCh(r[j + 1]))
                   ELSE 0
        frac == IF hasFrac THEN SubSeq(r, 2, fracEnd) ELSE <<>>
        z == SubSeq(r, fracEnd + 1, Len(r))
    IN  IF hasFrac /\ frac = <<>> THEN <<FALSE, 0, <<>> >>
        ELSE IF z = <<>> THEN <<TRUE, Micros(frac), <<>> >>
        ELSE IF z = <<"Z">> THEN <<TRUE, Micros(frac), <<0>> >>
        ELSE IF /\ Len(z) = 6 /\ z[1] \in {"+", "-"} /\ z[4] = ":"
                /\ DigitsAt(z, 2, 3) /\ DigitsAt(z, 5, 6)
                /\ NumAt(z, 2, 3) < 24 /\ NumAt(z, 5, 6) < 60
        THEN <<TRUE, Micros(frac),
               <<(IF z[1] = "-" THEN -1 ELSE 1) * (60 * NumAt(z, 2, 3) + NumAt(z, 5, 6))>> >>
        ELSE <<FALSE, 0, <<>> >>

fromisoformat(x) ==
    IF Tag(x) # "str" THEN Raise("TypeError")
    ELSE LET s == x[2]
             dateOk == /\ Len(s) >= 10 /\ DigitsAt(s, 1, 4) /\ s[5] = "-"
                       /\ DigitsAt(s, 6, 7) /\ s[8] = "-" /\ DigitsAt(s, 9, 10)
                       /\ NumAt(s, 1, 4) >= 1
                       /\ NumAt(s, 6, 7) \in 1..12
                       /\ NumAt(s, 9, 10) \in 1..DaysInMonth(NumAt(s, 1, 4), NumAt(s, 6, 7))
             timeOk == /\ Len(s) >= 19 /\ DigitsAt(s, 12, 13) /\ s[14] = ":"
                       /\ DigitsAt(s, 15, 16) /\ s[17] = ":" /\ DigitsAt(s, 18, 19)
                       /\ NumAt(s, 12, 13) < 24 /\ NumAt(s, 15, 16) < 60
                       /\ NumAt(s, 18, 19) < 60
         IN  IF ~dateOk THEN Raise("ValueError")
             ELSE IF Len(s) = 10
             THEN Ok(Datetime(NumAt(s, 1, 4), NumAt(s, 6, 7), NumAt(s, 9, 10),
                              0, 0, 0, 0, <<>>))
             ELSE IF ~timeOk THEN Raise("ValueError")
             ELSE LET t == ParseTail(SubSeq(s, 20, Len(s)))
                  IN  IF ~t[1] THEN Raise("ValueError")
                      ELSE Ok(Datetime(NumAt(s, 1, 4), NumAt(s, 6, 7), NumAt(s, 9, 10),
                                       NumAt(s, 12, 13), NumAt(s, 15, 16),
                                       NumAt(s, 18, 19), t[2], t[3]))

\* _datetime_hook(s, _)
_datetime_hook(s) == fromisoformat(s)

(***************************************************************************)
(* Cell (lines 49-60): the declared fields, in order, with their types.    *)
(***************************************************************************)
F_id == <<"i","d">>
F_name == <<"n","a","m","e">>
F_cell_id == <<"c","e","l","l","_","i","d">>
F_active == <<"a","c","t","i","v","e">>
F_session_id == <<"s","e","s","s","i","o","n","_","i","d">>
F_position == <<"p","o","s","i","t","i","o","n">>
F_block == <<"b","l","o","c","k">>
F_created_at == <<"c","r","e","a","t","e","d","_","a","t">>
F_updated_at == <<"u","p","d","a","t","e","d","_","a","t">>

CellFields ==
    << <<F_id, "int">>, <<F_name, "str">>, <<F_cell_id, "int">>, <<F_active, "int">>,
       <<F_session_id, "str|None">>, <<F_position, "str|None">>, <<F_block, "str|None">>,
       <<F_created_at, "datetime">>, <<F_updated_at, "datetime">> >>

FieldName(i) == CellFields[i][1]
FieldType(i) == CellFields[i][2]

\* lines 21-22: the structure hooks registered on the module's converter
InitialHooks == {"datetime"}

(***************************************************************************)
(* cattrs.Converter.structure, as the default converter does it: int and   *)
(* str are structured by calling the type on the value, an optional by     *)
(* passing None through and structuring anything else as the inner type, a *)
(* class with a registered hook by the hook, typing.Any by returning the    *)
(* value, an attrs class by o[name] for every field (no field of Cell has a *)
(* default), a list by iterating the value.                                *)
(***************************************************************************)
structure_field(v, type, hk) ==
    IF type = "int" THEN py_int(v)
    ELSE IF type = "str" THEN Ok(py_str(v))
    ELSE IF type = "str|None" THEN (IF Tag(v) = "null" THEN Ok(Null) ELSE Ok(py_str(v)))
    ELSE IF "datetime" \in hk THEN _datetime_hook(v)
    ELSE Raise("StructureHandlerNotFoundError")

\* Cell structured as if its optional fields had the default None
structure_Cell_defaulting(o, hk) ==
    IF Tag(o) # "map" THEN Raise("ClassValidationError")
    ELSE LET res == [i \in DOMAIN CellFields |->
                        IF HasKey(o[2], FieldName(i))
                        THEN structure_field(Lookup(o[2], FieldName(i)), FieldType(i), hk)
                        ELSE IF FieldType(i) = "str|None" THEN Ok(Null)
                        ELSE Raise("KeyError")]
         IN  IF \E i \in DOMAIN res : ~IsOk(res[i]) THEN Raise("ClassValidationError")
             ELSE Ok(<<"Cell">> \o [i \in DOMAIN res |-> res[i][2]])

\* the generated structuring function of Cell: o['id'], o['name'], ...
structure_Cell(o, hk) ==
    IF Tag(o) # "map" THEN Raise("ClassValidationError")
    ELSE LET res == [i \in DOMAIN CellFields |->
                        IF HasKey(o[2], FieldName(i))
                        THEN structure_field(Lookup(o[2], FieldName(i)), FieldType(i), hk)
                        ELSE Raise("KeyError")]
         IN  IF \E i \in DOMAIN res : ~IsOk(res[i]) THEN Raise("ClassValidationError")
             ELSE Ok(<<"Cell">> \o [i \in DOMAIN res |-> res[i][2]])

\* what iterating a value yields: a list its items, a dict its keys, a string
\* its characters; None and an int are not iterable
IterItems(v) ==
    IF Tag(v) = "list" THEN v[2]
    ELSE IF Tag(v) = "map" THEN [i \in DOMAIN v[2] |-> Str(v[2][i][1])]
    ELSE [i \in DOMAIN v[2] |-> Str(<<v[2][i]>>)]

structure_list_Cell(v, hk) ==
    IF Tag(v) \notin {"list", "map", "str"} THEN Raise("TypeError")
    ELSE LET res == [i \in DOMAIN IterItems(v) |-> structure_Cell(IterItems(v)[i], hk)]
         IN  IF \E i \in DOMAIN res : ~IsOk(res[i]) THEN Raise("IterableValidationError")
             ELSE Ok(List([i \in DOMAIN res |-> res[i][2]]))

structure(v, cls, hk) ==
    IF cls = "Any" THEN Ok(v)
    ELSE IF cls = "Cell" THEN structure_Cell(v, hk)
    ELSE structure_list_Cell(v, hk)

\* the errors converter.structure raises
StructuringErrors ==
    {"ClassValidationError", "IterableValidationError", "TypeError",
     "StructureHandlerNotFoundError"}
IsStructuringError(r) == ~IsOk(r) /\ r[2] \in StructuringErrors

\* cattrs.Converter.unstructure: an attrs instance becomes the dict of its
\* fields, a list and a dict are rebuilt, everything else (int, str, None, and
\* datetime, for which no unstructure hook is registered) is returned as is
RECURSIVE unstructure(_)
unstructure(x) ==
    IF Tag(x) = "Cell"
    THEN Map([i \in DOMAIN CellFields |-> <<FieldName(i), unstructure(x[i + 1])>>])
    ELSE IF Tag(x) = "list" THEN List([i \in DOMAIN x[2] |-> unstructure(x[2][i])])
    ELSE IF Tag(x) = "map"
    THEN Map([i \in DOMAIN x[2] |-> <<x[2][i][1], unstructure(x[2][i][2])>>])
    ELSE x

(***************************************************************************)
(* CamelCaseConverter (lines 30-46).                                       *)
(***************************************************************************)
\* load, lines 37-38: the value handed to converter.structure
load_params(raw, flag) ==
    IF flag THEN depascalize(raw) ELSE Ok(raw)

\* load, lines 33-39
load(raw, cls, flag, hk) ==
    LET p == load_params(raw, flag)
    IN  IF IsOk(p) THEN structure(p[2], cls, hk) ELSE p

\* dump, lines 41-46
dump(data, flag) ==
    LET result == unstructure(data)
    IN  IF flag THEN camelize(result) ELSE Ok(result)

(***************************************************************************)
(* Inputs of load: wire records of the status response (camelCase keys),   *)
(* the same with one field replaced or removed, lists of them, and nested  *)
(* values of no particular type.                                           *)
(***************************************************************************)
K_cellId == <<"c","e","l","l","I","d">>
K_sessionId == <<"s","e","s","s","i","o","n","I","d">>
K_createdAt == <<"c","r","e","a","t","e","d","A","t">>
K_updatedAt == <<"u","p","d","a","t","e","d","A","t">>
WireKeys == <<F_id, F_name, K_cellId, F_active, K_sessionId, F_position, F_block,
              K_createdAt, K_updatedAt>>

\* "2022-08-23T07:07:45.000Z", "2022-08-24T13:38:17+03:00", "2022-08-23",
\* and two texts that are no timestamp
TsZ == <<"2","0","2","2","-","0","8","-","2","3","T","0","7",":","0","7",":","4","5",".","0","0","0","Z">>
TsOffset == <<"2","0","2","2","-","0","8","-","2","4","T","1","3",":","3","8",":","1","7","+","0","3",":","0","0">>
TsDate == <<"2","0","2","2","-","0","8","-","2","3">>
TsBadMonth == <<"2","0","2","2","-","1","3","-","2","3","T","0","7",":","0","7",":","4","5",".","0","0","0","Z">>
TsText == <<"y","e","s","t","e","r","d","a","y">>

WireRecord(i, act, sess, created, updated) ==
    Map(<< <<F_id, IntV(i)>>, <<F_name, Str(NatStr(i))>>, <<K_cellId, IntV(i)>>,
           <<F_active, IntV(act)>>, <<K_sessionId, sess>>, <<F_position, Null>>,
           <<F_block, Null>>, <<K_createdAt, Str(created)>>, <<K_updatedAt, Str(updated)>> >>)

BaseRecords ==
    {WireRecord(i, act, sess, created, TsOffset) :
        i \in 1..2, act \in {0, 1}, sess \in {Null, Str(<<"s", "7">>)},
        created \in {TsZ, TsDate}}

Record1 == WireRecord(1, 1, Null, TsZ, TsOffset)
Record2 == WireRecord(2, 0, Str(<<"s", "7">>), TsDate, TsOffset)

RawValues ==
    {Null, IntV(7), Str(<<"1", "2">>), Str(<<"a", "b">>), Str(<<>>), Str(TsZ),
     Str(TsBadMonth), Str(TsText), List(<<>>), Map(<<>>)}

WithField(rec, k, v) == Map(DictSet(rec[2], k, v))
WithoutField(rec, k) == Map(DictDel(rec[2], k))
\* the record with the field names of Cell for keys
SnakeKeyed(rec) == Map([i \in DOMAIN rec[2] |-> <<FieldName(i), rec[2][i][2]>>])

SingleRecords ==
    BaseRecords
    \cup {WithField(Record1, WireKeys[i], v) : i \in DOMAIN WireKeys, v \in RawValues}
    \cup {WithoutField(Record1, WireKeys[i]) : i \in DOMAIN WireKeys}
    \cup {SnakeKeyed(Record1), SnakeKeyed(WithoutField(Record1, K_sessionId))}

ListRecords ==
    {Record1, Record2, SnakeKeyed(Record1),
     WithoutField(Record2, K_sessionId), WithoutField(Record1, F_id),
     WithField(Record1, F_id, Str(<<"1", "2">>)),
     WithField(Record2, K_createdAt, Str(TsText))}

MaxRecords == 2
RecordLists == UNION {[1..n -> ListRecords] : n \in 0..MaxRecords}

NestScalars == {Null, IntV(1), Str(<<"a", "B">>)}
NestKeys == {<<"a", "B">>, <<"a", "_", "b">>}
NestInner ==
    NestScalars
    \cup {List(<<v>>) : v \in NestScalars}
    \cup {Map(<< <<k, v>> >>) : k \in NestKeys, v \in NestScalars}

MaxWidth == 2
NestedValues ==
    NestScalars
    \cup {List(s) : s \in UNION {[1..n -> NestInner] : n \in 0..MaxWidth}}
    \cup {Map(<< <<k, v>> >>) : k \in NestKeys, v \in NestInner}
    \cup UNION {{Map(<< <<k1, v1>>, <<k2, v2>> >>) :
                    k2 \in NestKeys \ {k1}, v1 \in NestInner, v2 \in NestInner} :
                k1 \in NestKeys}

LoadInputs ==
    {<<"Cell", r>> : r \in SingleRecords}
    \cup {<<"list[Cell]", List(s)>> : s \in RecordLists}
    \cup {<<"list[Cell]", v>> : v \in {Null, Str(<<>>), Str(<<"a", "B">>), Map(<<>>), Record1}}
    \cup {<<"Any", v>> : v \in NestedValues}

(***************************************************************************)
(* Key renaming alone: a key goes through the load-side conversion and     *)
(* then through the dump-side one.                                         *)
(***************************************************************************)
KeyAlphabet == {"a", "b", "A", "B", "1"}
KeyStrings == UNION {[1..n -> KeyAlphabet] : n \in 1..MaxKeyLen}

KeysIdle ==
    /\ kpc = "off"
    /\ key = <<>>
    /\ snake = <<>>
    /\ camel = <<>>

LoadIdle ==
    /\ lpc = "off"
    /\ params = Null
    /\ data_cls = "Any"
    /\ camel_to_snake = FALSE
    /\ renamed = Ok(Null)
    /\ loaded = Ok(Null)
    /\ snake_to_camel = FALSE
    /\ dumped = Ok(Null)

ClientIdle ==
    /\ hooks = InitialHooks
    /\ tasks = <<>>

MailIdle ==
    /\ mpc = "off"
    /\ margs = <<>>
    /\ message = <<>>
    /\ conn = "none"
    /\ events = <<>>
    /\ pending = "none"

ScanIdle ==
    /\ spc = "off"
    /\ tree = <<>>
    /\ paths = <<>>
    /\ files = <<>>

InitKeys ==
    /\ kpc = "raw"
    /\ key \in KeyStrings
    /\ snake = <<>>
    /\ camel = <<>>
    /\ LoadIdle /\ ClientIdle /\ MailIdle /\ ScanIdle

\* load, line 38: the key as humps.depascalize renames it
DepascalizeKey ==
    /\ kpc = "raw"
    /\ snake' = decamelize_str(key)
    /\ kpc' = "snake"
    /\ UNCHANGED <<key, camel, loadVars, clientVars, mailVars, scanVars>>

\* dump, line 45: the snake_case key as humps.camelize renames it
CamelizeKey ==
    /\ kpc = "snake"
    /\ camel' = camelize_str(snake)
    /\ kpc' = "camel"
    /\ UNCHANGED <<key, snake, loadVars, clientVars, mailVars, scanVars>>

NextKeys == DepascalizeKey \/ CamelizeKey

SpecKeys == InitKeys /\ [][NextKeys]_vars

\* a camelCase key: letters and digits, a lowercase letter first
IsCamelCase(k) ==
    /\ Len(k) > 0
    /\ IsLowerCh(k[1])
    /\ \A i \in DOMAIN k : IsCasedCh(k[i]) \/ IsDigitCh(k[i])

\* every capital of k comes right after a lowercase letter
CapitalsAfterLower(k) ==
    \A i \in DOMAIN k : IsUpperCh(k[i]) => (i > 1 /\ IsLowerCh(k[i - 1]))

InitLoad ==
    /\ lpc = "start"
    /\ \E inp \in LoadInputs : data_cls = inp[1] /\ params = inp[2]
    /\ camel_to_snake \in BOOLEAN
    /\ renamed = Ok(Null)
    /\ loaded = Ok(Null)
    /\ snake_to_camel = FALSE
    /\ dumped = Ok(Null)
    /\ KeysIdle /\ ClientIdle /\ MailIdle /\ ScanIdle

\* c.load(params, data_cls, camel_to_snake), lines 33-39
LoadCall ==
    /\ lpc = "start"
    /\ renamed' = load_params(params, camel_to_snake)
    /\ loaded' = load(params, data_cls, camel_to_snake, InitialHooks)
    /\ lpc' = "loaded"
    /\ UNCHANGED <<params, data_cls, camel_to_snake, snake_to_camel, dumped, keyVars, clientVars, mailVars, scanVars>>

\* c.dump(data, snake_to_camel) on the value load returned, lines 41-46
DumpCall ==
    /\ lpc = "loaded"
    /\ IsOk(loaded)
    /\ \E flag \in BOOLEAN :
        /\ snake_to_camel' = flag
        /\ dumped' = dump(loaded[2], flag)
    /\ lpc' = "dumped"
    /\ UNCHANGED <<params, data_cls, camel_to_snake, renamed, loaded, keyVars, clientVars, mailVars, scanVars>>

NextLoad == LoadCall \/ DumpCall

SpecLoad == InitLoad /\ [][NextLoad]_vars

\* the key of a record as structuring sees it under the flag of load
KeyAsLoaded(k, flag) == IF flag THEN decamelize_str(k) ELSE k
\* the records a load of the given type structures as Cell
RecordsToLoad(p, cls) ==
    IF cls = "Cell" THEN {p}
    ELSE IF cls = "list[Cell]" /\ Tag(p) = "list" THEN {p[2][i] : i \in DOMAIN p[2]}
    ELSE {}
FieldAbsent(rec, i, flag) ==
    Tag(rec) # "map" \/ \A k \in Keys(rec[2]) : KeyAsLoaded(k, flag) # FieldName(i)

\* a record of the status response: the nine wire keys, with an integer, a
\* string, a string or null, or an ISO-8601 text, as Cell declares them
WireTypeOk(v, type) ==
    IF type = "int" THEN Tag(v) = "int"
    ELSE IF type = "str" THEN Tag(v) = "str"
    ELSE IF type = "str|None" THEN Tag(v) \in {"str", "null"}
    ELSE Tag(v) = "str" /\ IsOk(fromisoformat(v))
IsWireRecord(rec) ==
    /\ Tag(rec) = "map"
    /\ Len(rec[2]) = Len(WireKeys)
    /\ \A i \in DOMAIN WireKeys :
        rec[2][i][1] = WireKeys[i] /\ WireTypeOk(rec[2][i][2], FieldType(i))
IsStatusPayload(p) ==
    Tag(p) = "list" /\ Len(p[2]) > 0 /\ \A i \in DOMAIN p[2] : IsWireRecord(p[2][i])

\* C1: dump(load(x, list[Cell])), with the case conversion on both sides,
\* gives back a status payload x field for field, the timestamps as the
\* ISO-8601 texts they were.
C1_RoundTrip ==
    (/\ lpc = "dumped" /\ data_cls = "list[Cell]"
     /\ camel_to_snake /\ snake_to_camel /\ IsStatusPayload(params))
    => dumped = Ok(params)

\* the type of a raw value is the one the field declares
TypeCompatible(v, type) ==
    IF type = "int" THEN Tag(v) = "int"
    ELSE IF type = "str" THEN Tag(v) = "str"
    ELSE IF type = "str|None" THEN Tag(v) \in {"str", "null"}
    ELSE Tag(v) = "str"
HasIncompatibleField(rec, flag) ==
    /\ Tag(rec) = "map"
    /\ \E j \in DOMAIN rec[2] : \E i \in DOMAIN CellFields :
        /\ KeyAsLoaded(rec[2][j][1], flag) = FieldName(i)
        /\ ~TypeCompatible(rec[2][j][2], FieldType(i))

\* C2: a load of a record in which some field's raw value has a type other
\* than the declared one fails with a structuring error (no coercion).
C2_TypeMismatchFails ==
    (/\ lpc # "start"
     /\ \E rec \in RecordsToLoad(params, data_cls) :
            HasIncompatibleField(rec, camel_to_snake))
    => IsStructuringError(loaded)

\* C4: a load of a record, or of a list holding a record, in which a declared
\* field of Cell is absent fails with a structuring error; a load that returns
\* returns one Cell per record of the list, none of them lacking a field.
C4_MissingFieldFails ==
    lpc # "start" =>
        /\ (\E rec \in RecordsToLoad(params, data_cls) :
                \E i \in DOMAIN CellFields : FieldAbsent(rec, i, camel_to_snake))
            => IsStructuringError(loaded)
        /\ (IsOk(loaded) /\ data_cls = "list[Cell]" /\ Tag(params) = "list")
            => /\ Len(loaded[2][2]) = Len(params[2])
               /\ \A n \in DOMAIN params[2] : \A i \in DOMAIN CellFields :
                    ~FieldAbsent(params[2][n], i, camel_to_snake)

\* a list whose first record is complete and whose second lacks only the
\* optional session_id has been loaded, and the load failed
C4_Witness ==
    /\ lpc = "loaded"
    /\ data_cls = "list[Cell]" /\ camel_to_snake
    /\ params = List(<<Record1, WithoutField(Record2, K_sessionId)>>)
    /\ IsStructuringError(loaded)

\* the keys of a value renamed at every depth, nothing else changed
RECURSIVE KeysRenamed(_)
RECURSIVE PairsRenamed(_, _)
PairsRenamed(pairs, acc) ==
    IF pairs = <<>> THEN acc
    ELSE PairsRenamed(Tail(pairs),
            DictSet(acc, decamelize_str(Head(pairs)[1]), KeysRenamed(Head(pairs)[2])))
KeysRenamed(x) ==
    IF Tag(x) = "list" THEN List([i \in DOMAIN x[2] |-> KeysRenamed(x[2][i])])
    ELSE IF Tag(x) = "map" THEN Map(PairsRenamed(x[2], <<>>))
    ELSE x

\* C5: for a string, a mapping or a sequence (the declared type of params):
\* with camel_to_snake, load hands to structuring the value with every
\* mapping key renamed and every non-key value (strings, integers, nulls,
\* sequences) as it was; without it, the value itself.
C5_KeysOnly ==
    (lpc # "start" /\ Tag(params) \in {"str", "map", "list"}) =>
        renamed = Ok(IF camel_to_snake THEN KeysRenamed(params) ELSE params)
(***************************************************************************)
(* The client: get_status (lines 63-70) and open_cell (lines 73-76) as     *)
(* coroutines of one event loop, with load and dump called between their   *)
(* suspension points.  A coroutine runs from one await to the next in one   *)
(* step: up to the request sent by client.get, from the response to the    *)
(* exit of the async with block, and from the closed client to the return. *)
(***************************************************************************)
MaxTasks == 2
TaskIds == 1..MaxTasks

Port == 5003

\* line 65: f"{base_url}:5003/storage"
get_status_url(base_url) ==
    base_url \o <<":">> \o IntStr(Port) \o <<"/","s","t","o","r","a","g","e">>
\* line 74: f"{base_url}:5003/storage/{cell_id}/open"
open_cell_url(base_url, cell_id) ==
    base_url \o <<":">> \o IntStr(Port) \o <<"/","s","t","o","r","a","g","e","/">> \o IntStr(cell_id)
        \o <<"/","o","p","e","n">>

BaseUrl == <<"h","t","t","p",":","/","/","p","m">>
CellIds == {3, 12}

K_data == <<"d","a","t","a">>
K_message == <<"m","e","s","s","a","g","e">>
JsonBody(v) == <<"json", v>>
TextBody == <<"text">>
StatusBody(data) == JsonBody(Map(<< <<K_message, Str(<<"O", "K">>)>>, <<K_data, data>> >>))

\* what the locker service may answer to a status fetch, and to an open
ConnectError == <<"error", "ConnectError">>
Response(status, body) == <<"response", status, body>>
StatusAnswers ==
    {ConnectError,
     Response(200, StatusBody(List(<<Record1, Record2>>))),
     Response(200, StatusBody(List(<<Record1, WithoutField(Record2, K_sessionId)>>))),
     Response(500, StatusBody(List(<<Record1>>))),
     Response(404, TextBody)}
OpenAnswers == {ConnectError, Response(200, TextBody), Response(500, TextBody)}

\* line 68: r.json()["data"]
json_data(body) ==
    IF body[1] # "json" THEN Raise("JSONDecodeError")
    ELSE IF Tag(body[2]) # "map" THEN Raise("TypeError")
    ELSE IF ~HasKey(body[2][2], K_data) THEN Raise("KeyError")
    ELSE Ok(Lookup(body[2][2], K_data))

IdleTask ==
    [op |-> "none", pc |-> "idle", arg |-> <<>>, client |-> "none", sent |-> <<>>,
     resp |-> <<"none">>, result |-> Ok(Null)]

InitClient ==
    /\ hooks = InitialHooks
    /\ tasks = [t \in TaskIds |-> IdleTask]
    /\ KeysIdle /\ LoadIdle /\ MailIdle /\ ScanIdle

\* get_status, lines 64-67: the converter, the url, the client entered, and
\* the request sent by client.get
GetStatusCall(t) ==
    /\ tasks[t].pc = "idle"
    /\ tasks' = [tasks EXCEPT ![t] =
            [IdleTask EXCEPT !.op = "get_status", !.pc = "awaiting",
                             !.arg = <<BaseUrl>>, !.client = "open",
                             !.sent = << <<"GET", get_status_url(BaseUrl)>> >>]]
    /\ UNCHANGED <<hooks, keyVars, loadVars, mailVars, scanVars>>

\* get_status, lines 67-70: client.get raises or returns the response, whose
\* data is loaded; the value returned, or the exception, is known
GetStatusReceive(t) ==
    /\ tasks[t].op = "get_status" /\ tasks[t].pc = "awaiting"
    /\ \E r \in StatusAnswers :
        LET data == json_data(r[3])
            res == IF r[1] = "error" THEN Raise(r[2])
                   ELSE IF ~IsOk(data) THEN data
                   ELSE load(data[2], "list[Cell]", TRUE, hooks)
        IN  tasks' = [tasks EXCEPT ![t].resp = r, ![t].result = res, ![t].pc = "exiting"]
    /\ UNCHANGED <<hooks, keyVars, loadVars, mailVars, scanVars>>

\* open_cell, lines 74-76: the url, the client entered, the request sent
OpenCellCall(t) ==
    /\ tasks[t].pc = "idle"
    /\ \E n \in CellIds :
        tasks' = [tasks EXCEPT ![t] =
            [IdleTask EXCEPT !.op = "open_cell", !.pc = "awaiting",
                             !.arg = <<BaseUrl, n>>, !.client = "open",
                             !.sent = << <<"GET", open_cell_url(BaseUrl, n)>> >>]]
    /\ UNCHANGED <<hooks, keyVars, loadVars, mailVars, scanVars>>

\* open_cell, line 76: client.get raises or returns the response, which is
\* dropped
OpenCellReceive(t) ==
    /\ tasks[t].op = "open_cell" /\ tasks[t].pc = "awaiting"
    /\ \E r \in OpenAnswers :
        tasks' = [tasks EXCEPT ![t].resp = r, ![t].pc = "exiting",
                               ![t].result = IF r[1] = "error" THEN Raise(r[2])
                                             ELSE Ok(Null)]
    /\ UNCHANGED <<hooks, keyVars, loadVars, mailVars, scanVars>>

\* the client closed on the normal way out only
ClientExit_leak(t) ==
    /\ tasks[t].pc = "exiting"
    /\ tasks' = [tasks EXCEPT ![t].client = IF IsOk(tasks[t].result) THEN "closed" ELSE "open",
                              ![t].pc = IF IsOk(tasks[t].result) THEN "done" ELSE "raised"]
    /\ UNCHANGED <<hooks, keyVars, loadVars, mailVars, scanVars>>

\* lines 66 and 75: the async with block closes the client on every way out,
\* and the coroutine returns or raises
ClientExit(t) ==
    /\ tasks[t].pc = "exiting"
    /\ tasks' = [tasks EXCEPT ![t].client = "closed",
                              ![t].pc = IF IsOk(tasks[t].result) THEN "done" ELSE "raised"]
    /\ UNCHANGED <<hooks, keyVars, loadVars, mailVars, scanVars>>

\* the inputs of the calls of load made beside the coroutines
ClientLoadInputs ==
    {<<"list[Cell]", List(<<Record1>>)>>,
     <<"Cell", WithField(Record1, K_createdAt, Str(TsText))>>}

\* a load that registers a hook for the type it structured, in place of the
\* hooks there were
LoadSync_registering(t) ==
    /\ tasks[t].pc = "idle"
    /\ \E inp \in ClientLoadInputs :
        LET res == load(inp[2], inp[1], TRUE, hooks)
        IN  /\ tasks' = [tasks EXCEPT ![t] =
                    [IdleTask EXCEPT !.op = "load", !.arg = inp, !.result = res,
                                     !.pc = IF IsOk(res) THEN "done" ELSE "raised"]]
            /\ hooks' = {inp[1]}
    /\ UNCHANGED <<keyVars, loadVars, mailVars, scanVars>>

\* CamelCaseConverter().load(params, data_cls), lines 33-39
LoadSync(t) ==
    /\ tasks[t].pc = "idle"
    /\ \E inp \in ClientLoadInputs :
        LET res == load(inp[2], inp[1], TRUE, hooks)
        IN  tasks' = [tasks EXCEPT ![t] =
                [IdleTask EXCEPT !.op = "load", !.arg = inp, !.result = res,
                                 !.pc = IF IsOk(res) THEN "done" ELSE "raised"]]
    /\ UNCHANGED <<hooks, keyVars, loadVars, mailVars, scanVars>>

\* CamelCaseConverter().dump(data, snake_to_camel) on a value a load returned,
\* lines 41-46
DumpSync(t) ==
    /\ tasks[t].op = "load" /\ tasks[t].pc = "done"
    /\ \E flag \in BOOLEAN :
        LET res == dump(tasks[t].result[2], flag)
        IN  tasks' = [tasks EXCEPT ![t] =
                [IdleTask EXCEPT !.op = "dump", !.arg = <<tasks[t].result[2], flag>>,
                                 !.result = res,
                                 !.pc = IF IsOk(res) THEN "done" ELSE "raised"]]
    /\ UNCHANGED <<hooks, keyVars, loadVars, mailVars, scanVars>>

\* the caller has the result, or the exception, of a call that ended
CallOver(t) ==
    /\ tasks[t].pc \in {"done", "raised"}
    /\ tasks' = [tasks EXCEPT ![t] = IdleTask]
    /\ UNCHANGED <<hooks, keyVars, loadVars, mailVars, scanVars>>

NextClient ==
    \E t \in TaskIds :
        \/ GetStatusCall(t)
        \/ GetStatusReceive(t)
        \/ OpenCellCall(t)
        \/ OpenCellReceive(t)
        \/ ClientExit(t)
        \/ LoadSync(t)
        \/ DumpSync(t)
        \/ CallOver(t)

SpecClient == InitClient /\ [][NextClient]_vars

IsHttpCall(t) == tasks[t].op \in {"get_status", "open_cell"}
Is2xx(r) == r[1] = "response" /\ r[2] \in 200..299

\* C3: get_status and open_cell return normally only on a 2xx response: a
\* connection failure and every other status reach the caller as an error.
C3_ErrorsPropagate ==
    \A t \in DOMAIN tasks :
        (IsHttpCall(t) /\ tasks[t].pc = "done") => Is2xx(tasks[t].resp)

\* the url the call is documented to fetch
ExpectedUrl(t) ==
    IF tasks[t].op = "open_cell"
    THEN tasks[t].arg[1] \o <<":","5","0","0","3","/","s","t","o","r","a","g","e","/">> \o IntStr(tasks[t].arg[2])
            \o <<"/","o","p","e","n">>
    ELSE tasks[t].arg[1] \o <<":","5","0","0","3","/","s","t","o","r","a","g","e">>

\* C7: a call of open_cell or get_status sends exactly one GET, to its url,
\* never a second one, and the client is closed when the call returns or
\* raises.
C7_OneRequest ==
    \A t \in DOMAIN tasks :
        IsHttpCall(t) =>
            /\ tasks[t].sent = << <<"GET", ExpectedUrl(t)>> >>
            /\ tasks[t].pc \in {"done", "raised"} => tasks[t].client = "closed"
            /\ tasks[t].pc \in {"awaiting", "exiting"} => tasks[t].client = "open"

\* open_cell(base_url, 3) has raised on a connection failure, after its one
\* request and with its client closed, while a get_status has returned
C7_Witness ==
    \E t, u \in DOMAIN tasks :
        /\ tasks[t].op = "open_cell" /\ tasks[t].arg[2] = 3
        /\ tasks[t].pc = "raised" /\ tasks[t].resp = ConnectError
        /\ tasks[t].sent = << <<"GET", <<"h","t","t","p",":","/","/","p","m",":","5","0","0","3","/","s","t","o","r","a","g","e","/","3","/","o","p","e","n">>>> >>
        /\ tasks[t].client = "closed"
        /\ tasks[u].op = "get_status" /\ tasks[u].pc = "done"
        /\ tasks[u].sent = << <<"GET", <<"h","t","t","p",":","/","/","p","m",":","5","0","0","3","/","s","t","o","r","a","g","e">>>> >>

\* what the calls of the model return under the rule set of lines 21-22
LoadsUnderInitialRules ==
    [inp \in ClientLoadInputs |-> load(inp[2], inp[1], TRUE, {"datetime"})]
StatusUnderInitialRules ==
    [r \in {a \in StatusAnswers : a[1] = "response" /\ IsOk(json_data(a[3]))} |->
        load(json_data(r[3])[2], "list[Cell]", TRUE, {"datetime"})]

\* C10: the hooks registered on the shared converter are the timestamp hook
\* and nothing else, whatever calls ran or are running, and every load
\* returned what it returns under that rule set.
C10_HooksUnchanged ==
    /\ hooks = {"datetime"}
    /\ \A t \in DOMAIN tasks :
        /\ (tasks[t].op = "load")
            => tasks[t].result = LoadsUnderInitialRules[tasks[t].arg]
        /\ (tasks[t].op = "get_status" /\ tasks[t].pc \in {"exiting", "done", "raised"}
            /\ tasks[t].resp \in DOMAIN StatusUnderInitialRules)
            => tasks[t].result = StatusUnderInitialRules[tasks[t].resp]

\* a load has returned while a get_status that loaded two cells is leaving
\* its client block and an earlier call has raised
C10_Witness ==
    \E t, u \in DOMAIN tasks :
        /\ t # u
        /\ tasks[t].op = "load" /\ tasks[t].pc = "done"
        /\ tasks[u].op = "get_status" /\ tasks[u].pc = "exiting"
        /\ IsOk(tasks[u].result) /\ Len(tasks[u].result[2][2]) = 2
(***************************************************************************)
(* send_email (lines 84-96).  The mail server answers each call as it      *)
(* likes; smtplib.SMTP.__exit__ sends QUIT, raises SMTPResponseException   *)
(* when the answer is not 221, takes a lost connection silently, and       *)
(* closes the socket in every case.                                        *)
(***************************************************************************)
SmtpHost == "smtp.yandex.ru"
SmtpPort == 465

Senders == {"locker@ya.ru", "admin@ya.ru"}
Receivers == {"user@mail.ru", "ops@mail.ru"}
Passwords == {"pw1", "pw2"}
Subjects == {"Cell opened", ""}
Contents == {"Cell 3 is open", "Cell 5 is open"}

\* lines 89-93: the multipart message, with its headers and its one part
MimeMessage(sender, receiver, subject, contents) ==
    [From |-> sender, To |-> receiver, Subject |-> subject,
     parts |-> << <<"text/plain", contents>> >>]
\* message.as_string(): the message flattened to the text that is sent
as_string(m) == <<"mime-text", m.From, m.To, m.Subject, m.parts>>

InitMail ==
    /\ mpc = "start"
    /\ margs \in Senders \X Receivers \X Passwords \X Subjects \X Contents
    /\ message = <<>>
    /\ conn = "none"
    /\ events = <<>>
    /\ pending = "none"
    /\ KeysIdle /\ LoadIdle /\ ClientIdle /\ ScanIdle

\* lines 89-93
BuildMessage ==
    /\ mpc = "start"
    /\ message' = MimeMessage(margs[1], margs[2], margs[4], margs[5])
    /\ mpc' = "built"
    /\ UNCHANGED <<margs, conn, events, pending>>
    /\ UNCHANGED <<keyVars, loadVars, clientVars, scanVars>>

\* line 94, smtplib.SMTP_SSL("smtp.yandex.ru", 465): the TLS connection is
\* made and greeted; or it is refused; or the greeting is not 220, and the
\* constructor closes the socket before it raises
Connect ==
    /\ mpc = "built"
    /\ \/ /\ events' = Append(events, <<"connect", SmtpHost, SmtpPort, "ok">>)
          /\ conn' = "open"
          /\ mpc' = "connected"
          /\ pending' = "none"
       \/ /\ events' = Append(events, <<"connect", SmtpHost, SmtpPort, "refused">>)
          /\ conn' = "none"
          /\ mpc' = "raised"
          /\ pending' = "OSError"
       \/ /\ events' = events \o << <<"connect", SmtpHost, SmtpPort, "greeting">>, <<"close">> >>
          /\ conn' = "closed"
          /\ mpc' = "raised"
          /\ pending' = "SMTPConnectError"
    /\ UNCHANGED <<margs, message>>
    /\ UNCHANGED <<keyVars, loadVars, clientVars, scanVars>>

\* a login whose refusal is dropped
Login_swallow ==
    /\ mpc = "connected"
    /\ \/ /\ events' = Append(events, <<"login", margs[1], margs[3], "ok">>)
       \/ /\ events' = Append(events, <<"login", margs[1], margs[3], "denied">>)
    /\ mpc' = "authenticated"
    /\ pending' = "none"
    /\ UNCHANGED <<margs, message, conn>>
    /\ UNCHANGED <<keyVars, loadVars, clientVars, scanVars>>

\* line 95, server.login(sender_email, password)
Login ==
    /\ mpc = "connected"
    /\ \/ /\ events' = Append(events, <<"login", margs[1], margs[3], "ok">>)
          /\ mpc' = "authenticated"
          /\ pending' = "none"
       \/ /\ events' = Append(events, <<"login", margs[1], margs[3], "denied">>)
          /\ mpc' = "exiting"
          /\ pending' = "SMTPAuthenticationError"
    /\ UNCHANGED <<margs, message, conn>>
    /\ UNCHANGED <<keyVars, loadVars, clientVars, scanVars>>

\* line 96, server.sendmail(sender_email, receiver_email, message.as_string())
Sendmail ==
    /\ mpc = "authenticated"
    /\ \/ /\ events' = Append(events, <<"sendmail", margs[1], margs[2], as_string(message), "ok">>)
          /\ pending' = "none"
       \/ /\ events' = Append(events, <<"sendmail", margs[1], margs[2], as_string(message), "refused">>)
          /\ pending' = "SMTPRecipientsRefused"
    /\ mpc' = "exiting"
    /\ UNCHANGED <<margs, message, conn>>
    /\ UNCHANGED <<keyVars, loadVars, clientVars, scanVars>>

\* the end of the with block of line 94, SMTP.__exit__
SmtpExit ==
    /\ mpc = "exiting"
    /\ \E reply \in {"221", "other", "disconnected"} :
        /\ events' = events \o << <<"quit", reply>>, <<"close">> >>
        /\ pending' = IF reply = "other" THEN "SMTPResponseException" ELSE pending
        /\ mpc' = IF reply = "other" \/ pending # "none" THEN "raised" ELSE "returned"
    /\ conn' = "closed"
    /\ UNCHANGED <<margs, message>>
    /\ UNCHANGED <<keyVars, loadVars, clientVars, scanVars>>

NextMail == BuildMessage \/ Connect \/ Login \/ Sendmail \/ SmtpExit

SpecMail == InitMail /\ [][NextMail]_vars

EventsOf(kind) == {i \in DOMAIN events : events[i][1] = kind}

\* C8: connect (TLS, port 465), login with the sender's credentials, sendmail,
\* close, in this order: sendmail at most once and only after a login that
\* succeeded; after a failed connect or login no sendmail and an exception
\* for the caller; the connection closed whenever it was opened.
C8_MailOrder ==
    /\ Cardinality(EventsOf("sendmail")) <= 1
    /\ Cardinality(EventsOf("connect")) <= 1
    /\ \A i \in EventsOf("connect") :
        i = 1 /\ events[i][2] = "smtp.yandex.ru" /\ events[i][3] = 465
    /\ \A i \in EventsOf("login") :
        /\ events[i][2] = margs[1] /\ events[i][3] = margs[3]
        /\ \E j \in EventsOf("connect") : j < i /\ events[j][4] = "ok"
    /\ \A i \in EventsOf("sendmail") :
        /\ \E j \in EventsOf("login") : j < i /\ events[j][4] = "ok"
        /\ events[i][2] = margs[1] /\ events[i][3] = margs[2]
    /\ \A i \in EventsOf("close") : i = Len(events)
    /\ (\E i \in DOMAIN events :
            events[i][1] \in {"connect", "login"} /\ events[i][4] # "ok")
        => /\ EventsOf("sendmail") = {}
           /\ mpc \in {"exiting", "raised"}
           /\ pending # "none"
    /\ mpc \in {"returned", "raised"} =>
        /\ conn # "open"
        /\ (\E i \in EventsOf("connect") : events[i][4] # "refused")
            => (conn = "closed" /\ events[Len(events)] = <<"close">>)
    /\ mpc = "returned" =>
        \E i \in EventsOf("sendmail") : events[i][5] = "ok"

\* the login was denied: no sendmail, the connection closed, the caller has
\* the exception
C8_Witness ==
    /\ mpc = "raised"
    /\ pending = "SMTPAuthenticationError"
    /\ \E i \in EventsOf("login") : events[i][4] = "denied"
    /\ EventsOf("sendmail") = {}
    /\ conn = "closed"

(***************************************************************************)
(* scan_folder (lines 79-81).  A directory is <<file names, directories>>, *)
(* both in the order of its listing.  Path.walk, top down, keeps a stack   *)
(* of the directories to visit: it pops one, yields its listing, and       *)
(* pushes its subdirectories in reverse, so that the first is next.        *)
(***************************************************************************)
FileNames == {"a.txt", "b.txt"}
FileLists ==
    {<<>>} \cup {<<f>> : f \in FileNames}
    \cup {fg \in FileNames \X FileNames : fg[1] # fg[2]}

MaxSubdirs == 2
Dir(fl, ds) == <<fl, ds>>
Leaves == {Dir(fl, <<>>) : fl \in FileLists}
Middles == {Dir(fl, ds) : fl \in FileLists,
                          ds \in UNION {[1..n -> Leaves] : n \in 0..MaxSubdirs}}
Trees == Middles \cup {Dir(fl, <<d>>) : fl \in FileLists, d \in Middles}

Reverse(s) == [i \in DOMAIN s |-> s[Len(s) + 1 - i]]

InitScan ==
    /\ spc = "start"
    /\ tree \in Trees
    /\ paths = <<>>
    /\ files = <<>>
    /\ KeysIdle /\ LoadIdle /\ ClientIdle /\ MailIdle

\* line 80: path.walk() starts with the stack [path]
ScanStart ==
    /\ spc = "start"
    /\ paths' = <<tree>>
    /\ files' = <<>>
    /\ spc' = "walking"
    /\ UNCHANGED tree
    /\ UNCHANGED <<keyVars, loadVars, clientVars, mailVars>>

\* line 80: the next directory of the walk, and filename[0] of its listing
ScanVisit ==
    /\ spc = "walking" /\ paths # <<>>
    /\ LET d == paths[Len(paths)]
           rest == SubSeq(paths, 1, Len(paths) - 1)
       IN  IF d[1] = <<>>
           THEN /\ spc' = "IndexError"
                /\ UNCHANGED <<paths, files>>
           ELSE /\ files' = Append(files, d[1][1])
                /\ paths' = rest \o Reverse(d[2])
                /\ spc' = spc
    /\ UNCHANGED tree
    /\ UNCHANGED <<keyVars, loadVars, clientVars, mailVars>>

\* line 81: the walk is over, the list is returned
ScanReturn ==
    /\ spc = "walking" /\ paths = <<>>
    /\ spc' = "returned"
    /\ UNCHANGED <<tree, paths, files>>
    /\ UNCHANGED <<keyVars, loadVars, clientVars, mailVars>>

NextScan == ScanStart \/ ScanVisit \/ ScanReturn

SpecScan == InitScan /\ [][NextScan]_vars

\* the directories of a tree in the order of the walk
RECURSIVE WalkOrder(_)
RECURSIVE WalkAll(_)
WalkAll(ds) == IF ds = <<>> THEN <<>> ELSE WalkOrder(Head(ds)) \o WalkAll(Tail(ds))
WalkOrder(d) == <<d>> \o WalkAll(d[2])

\* C9: for every tree, whatever the number of files in a directory,
\* scan_folder returns a list with one entry per directory of the walk, in
\* the order of the walk, the entry being the first file name of the listing.
C9_OnePerDirectory ==
    /\ spc # "IndexError"
    /\ spc = "returned" =>
        /\ Len(files) = Len(WalkOrder(tree))
        /\ \A i \in DOMAIN files : files[i] = WalkOrder(tree)[i][1][1]
====
